---------------------------- MODULE Spec2Model ----------------------------
(***************************************************************************)
(* The observability core of openCSAT (src/app/server.js, lines 285-691): *)
(* Logger with file rotation, HealthMonitor with per-check timeout, and   *)
(* MetricsCollector with counters, gauges and histograms.                 *)
(*                                                                         *)
(* Each component has its own specification (LoggerSpec, HealthSpec,       *)
(* MetricsSpec, ...) over the one set of variables; the variables of the   *)
(* other components stay at their constructed values.                      *)
(***************************************************************************)
EXTENDS Integers, Sequences, FiniteSets, TLC

VARIABLES
    \* ---- Logger (server.js:285-415)
    level,          \* this.level
    enableConsole,  \* this.enableConsole
    enableFile,     \* this.enableFile
    maxFileSize,    \* this.maxFileSize
    maxFiles,       \* this.maxFiles
    console,        \* number of records printed by console.log in Logger.log
    files,          \* the log directory: file name -> sequence of records
    written,        \* number of records appended so far (orders the records)
    rotations,      \* per level: number of rotateLogFile calls that completed
    stderr,         \* number of lines printed by console.error in the Logger
    logThrew,       \* TRUE when the last call of the Logger threw to its caller
    failing,        \* the file-system call that fails at present, if any
    ncalls,         \* number of calls of Logger.log made by the application
    \* ---- MetricsCollector (server.js:566-691)
    metrics,        \* this.metrics: series key -> series object
    snapshot,       \* the object returned by the last getMetrics()
    raised,         \* TRUE when the last metrics call threw to its caller
    observed,       \* per series key: every value passed to histogram(), in order
    counted,        \* per series key: every value added by counter(), in order
    labelsSeen,     \* the <<name, labels>> arguments of the writes made so far
    nops,           \* number of calls made on the collector
    collecting,     \* this.isRunning of the collector
    sampleTimers,   \* pending setTimeout(collectSystemMetrics, collectInterval)
    nsamples,       \* number of samples taken by collectSystemMetrics
    ncollectorCmds, \* number of start() and stop() calls on the collector
    \* ---- HealthMonitor (server.js:417-564)
    checks,         \* this.checks: the Map's entries in insertion order
    history,        \* this.history, newest report first
    maxHistorySize, \* this.maxHistorySize
    isRunning,      \* this.isRunning
    cycles,         \* the runAllChecks() calls in flight, one per slot
    timers,         \* pending setTimeout(runChecks, checkInterval) timers
    ret,            \* per slot: the result last returned by runCheck
    produced,       \* every report returned by runAllChecks() so far, oldest
                    \* first, each with the names registered and the value
                    \* of isRunning at that time
    nruns,          \* number of runAllChecks() calls begun
    nadds,          \* number of addCheck calls
    ncmds,          \* number of start() and stop() calls
    reply,          \* what the getStatus(), getHistory() or GET /health call
                    \* just made returned
    losers,         \* per slot: what the last Promise.race of runCheck left
                    \* pending, the check function or the timeout timer
    unhandledRejection  \* a promise was rejected with no handler attached

loggerOutVars == <<console, files, written, rotations, stderr, logThrew>>

loggerVars == <<level, enableConsole, enableFile, maxFileSize, maxFiles,
                loggerOutVars, failing, ncalls>>

collectorLoopVars == <<collecting, sampleTimers, nsamples, ncollectorCmds>>

metricsVars == <<metrics, snapshot, raised, observed, counted, labelsSeen, nops,
                 collectorLoopVars>>

raceVars == <<losers, unhandledRejection>>

healthVars == <<checks, history, maxHistorySize, isRunning, cycles, timers,
                ret, produced, nruns, nadds, ncmds, reply, raceVars>>

vars == <<loggerVars, metricsVars, healthVars>>

(***************************************************************************)
(* Bounds of the model                                                     *)
(***************************************************************************)
MaxCalls == 4          \* calls of Logger.log by the application
MaxMetaCalls == 1      \* calls of Logger.log in MetaLoggerSpec
MaxFaultyCalls == 3    \* calls of Logger.log in FaultyLoggerSpec
MaxMetricOps == 3      \* calls on the collector in MetricsSpec
MaxHistOps == 5        \* calls on the collector in HistogramSpec
\* the cap of a histogram's value list; the source keeps 1000 values
\* (server.js:605-606), the model keeps HistogramCap of them
HistogramCap == 2
MaxCycles == 1         \* runAllChecks() calls in flight at one time
MaxRuns == 1           \* runAllChecks() calls begun in HealthSpec
MaxLoopRuns == 2       \* runAllChecks() calls begun in MonitorSpec
MaxLoopAdds == 2       \* addCheck calls in MonitorSpec
MaxTimedRuns == 1      \* runAllChecks() calls begun in RunCheckFairSpec
MaxAdds == 1           \* addCheck calls in HealthSpec
MaxCmds == 2           \* start() and stop() calls
MaxRaceRuns == 1       \* runAllChecks() calls begun in RaceSpec
MaxRestartCmds == 3    \* start() and stop() calls in RestartSpec
MaxRestartCycles == 2  \* cycles begun in RestartSpec
MaxEndpointRuns == 1   \* runAllChecks() calls begun in EndpointSpec
MaxEndpointCalls == 2  \* GET /health requests in EndpointSpec
MaxLoopCmds == 2       \* start() and stop() calls in LoopSpec
MaxLoopCycles == 2     \* runAllChecks() calls begun in LoopSpec
MaxCollectorCmds == 3  \* start() and stop() calls on the collector
MaxSamples == 3        \* samples taken in CollectorSpec
MaxCollectorOps == 15  \* gauge and counter calls in CollectorSpec
MaxCounterOps == 4     \* calls on the collector in CounterSpec
MaxHistRuns == 3       \* runAllChecks() calls begun in HistorySpec

(***************************************************************************)
(* Logger                                                                  *)
(***************************************************************************)
Levels == {"error", "warn", "info", "debug"}

\* this.levels, server.js:294-299
levels == [error |-> 0, warn |-> 1, info |-> 2, debug |-> 3]

\* level.toUpperCase(), server.js:314
toUpperCase == [error |-> "ERROR", warn |-> "WARN", info |-> "INFO", debug |-> "DEBUG"]

\* options.maxFileSize || 10 * 1024 * 1024, server.js:291
DefaultMaxFileSize == 10485760
\* options.maxFiles || 5, server.js:292
DefaultMaxFiles == 5

\* option values handed to the constructor; 0 stands for "not given"
MaxFileSizeOpts == {0, 1}
MaxFilesOpts == {0, 1, 2, 3}
\* lengths in bytes of JSON.stringify(logEntry) + '\n'
RecSizes == {1, 2}

\* a file name: <<level, generation>>; generation 0 is the live file
\* `${level}.log`, generation i is `${level}.log.${i}`
LiveFile(lv) == <<lv, 0>>
GenFile(lv, i) == <<lv, i>>

existsSync(fs, f) == f \in DOMAIN fs

unlinkSync(fs, f) == [g \in DOMAIN fs \ {f} |-> fs[g]]

\* fs.renameSync replaces an existing destination
renameSync(fs, old, new) ==
    [g \in (DOMAIN fs \ {old}) \cup {new} |-> IF g = new THEN fs[old] ELSE fs[g]]

\* fs.appendFileSync creates the file when it is missing
appendFileSync(fs, f, rec) ==
    [g \in DOMAIN fs \cup {f} |->
        IF g = f THEN (IF f \in DOMAIN fs THEN Append(fs[f], rec) ELSE <<rec>>)
        ELSE fs[g]]

\* the file-system calls of the Logger that can throw, each on the live file
\* (generation 0) or on a generation; fs.existsSync never throws
NoFault == [op |-> "none", gen |-> 0]
FaultPoints ==
    {[op |-> "stat", gen |-> 0], [op |-> "append", gen |-> 0]}
      \cup {[op |-> "rename", gen |-> g] : g \in 0..1}
      \cup {[op |-> "unlink", gen |-> g] : g \in 1..2}

\* the call op on a file of generation gen throws
Fails(op, gen) == failing = [op |-> op, gen |-> gen]

RECURSIVE SumSizes(_)
SumSizes(s) == IF s = <<>> THEN 0 ELSE Head(s).size + SumSizes(Tail(s))

\* fs.statSync(filename).size
statSize(fs, f) == SumSizes(fs[f])

\* shouldLog with the comparison made strict
shouldLogStrict(lv) == levels[lv] < levels[level]

\* Logger.shouldLog
shouldLog(lv) == levels[lv] <= levels[level]

\* the loop of rotateLogFile, from generation i down to 1: the directory
\* it leaves and whether a file-system call threw, which ends the loop
RECURSIVE RotateLoop(_, _, _)
RotateLoop(fs, lv, i) ==
    IF i < 1 THEN [fs |-> fs, threw |-> FALSE]
    ELSE LET oldFile == GenFile(lv, i)
             newFile == GenFile(lv, i + 1)
         IN  IF ~existsSync(fs, oldFile) THEN RotateLoop(fs, lv, i - 1)
             ELSE IF i = maxFiles - 1
                  THEN IF Fails("unlink", i) THEN [fs |-> fs, threw |-> TRUE]
                       ELSE RotateLoop(unlinkSync(fs, oldFile), lv, i - 1)
                  ELSE IF Fails("rename", i) THEN [fs |-> fs, threw |-> TRUE]
                       ELSE RotateLoop(renameSync(fs, oldFile, newFile), lv, i - 1)

\* rotateLogFile without the shift of the older generations
rotateLogFileNoShift(L, lv) ==
    [L EXCEPT !.files = renameSync(L.files, LiveFile(lv), GenFile(lv, 1)),
              !.rotations[lv] = @ + 1]

\* Logger.rotateLogFile on the logger's output state L: a throw of the loop
\* or of the last rename is caught and reported with console.error
rotateLogFile(L, lv) ==
    LET loop == RotateLoop(L.files, lv, maxFiles - 1)
    IN  IF loop.threw \/ Fails("rename", 0)
        THEN [L EXCEPT !.files = loop.fs, !.stderr = @ + 1]
        ELSE [L EXCEPT !.files = renameSync(loop.fs, LiveFile(lv), GenFile(lv, 1)),
                       !.rotations[lv] = @ + 1]

\* the metadata objects passed to the Logger: a value for each key present
MetaKeys == {"timestamp", "level", "message", "userId", "error"}
MetaValues == {"forged", "anError"}
Metas ==
    {m \in UNION {[K -> MetaValues] : K \in SUBSET MetaKeys} :
        \A k \in DOMAIN m : m[k] = "anError" => k = "error"}

\* meta = {}
NoMeta == [k \in {} |-> "forged"]
\* { error, duration } of runCheck, { error } of the loop boundaries and
\* { failures } of runAllChecks
ErrorDurationMeta == [k \in {"error", "duration"} |->
                        IF k = "error" THEN "anError" ELSE "ms"]
ErrorMeta == [k \in {"error"} |-> "anError"]
FailuresMeta == [k \in {"failures"} |-> "list"]

\* the message argument of a log call
ArgMessage == "message"

\* the keys formatMessage sets before it spreads the metadata
RecordKeys == {"timestamp", "level", "message"}

\* Logger.formatMessage: { timestamp, level, message, ...meta }, the keys of
\* meta being set last, then error replaced by { message, stack, code } when
\* it is an Error; id numbers the records in the order written and size is
\* the length of the JSON line
formatMessage(L, lv, meta, size) ==
    [id |-> L.written + 1,
     timestamp |-> IF "timestamp" \in DOMAIN meta THEN meta["timestamp"]
                   ELSE "generated",
     level |-> IF "level" \in DOMAIN meta THEN meta["level"] ELSE toUpperCase[lv],
     message |-> IF "message" \in DOMAIN meta THEN meta["message"] ELSE ArgMessage,
     extra |-> [k \in DOMAIN meta \ RecordKeys |->
                  IF k = "error" /\ meta[k] = "anError" THEN "serialized"
                  ELSE meta[k]],
     size |-> size]

\* the try block of writeToFile rotating from the threshold on
writeToFileTryAtThreshold(L, lv, meta, size) ==
    LET filename == LiveFile(lv)
    IN  IF existsSync(L.files, filename) /\ Fails("stat", 0)
        THEN [L EXCEPT !.threw = TRUE]
        ELSE LET L1 == IF existsSync(L.files, filename)
                          /\ statSize(L.files, filename) >= maxFileSize
                       THEN rotateLogFile(L, lv)
                       ELSE L
             IN  IF Fails("append", 0)
                 THEN [L1 EXCEPT !.threw = TRUE]
                 ELSE [L1 EXCEPT !.files = appendFileSync(L1.files, filename,
                                                formatMessage(L, lv, meta, size)),
                                 !.written = @ + 1]

\* the try block of Logger.writeToFile (server.js:334-345); threw is set
\* when fs.statSync or fs.appendFileSync throws
writeToFileTry(L, lv, meta, size) ==
    LET filename == LiveFile(lv)
    IN  IF existsSync(L.files, filename) /\ Fails("stat", 0)
        THEN [L EXCEPT !.threw = TRUE]
        ELSE LET L1 == IF existsSync(L.files, filename)
                          /\ statSize(L.files, filename) > maxFileSize
                       THEN rotateLogFile(L, lv)
                       ELSE L
             IN  IF Fails("append", 0)
                 THEN [L1 EXCEPT !.threw = TRUE]
                 ELSE [L1 EXCEPT !.files = appendFileSync(L1.files, filename,
                                                formatMessage(L, lv, meta, size)),
                                 !.written = @ + 1]

\* writeToFile without its catch block
writeToFileUncaught(L, lv, meta, size) ==
    IF ~enableFile THEN L ELSE writeToFileTry(L, lv, meta, size)

\* Logger.writeToFile: what the try block throws is caught and reported
\* with console.error
writeToFile(L, lv, meta, size) ==
    IF ~enableFile THEN L
    ELSE LET tried == writeToFileTry(L, lv, meta, size)
         IN  IF tried.threw
             THEN [tried EXCEPT !.threw = FALSE, !.stderr = @ + 1]
             ELSE tried

\* Logger.log as a function of the logger's output state
logOn(L, lv, meta, size) ==
    IF ~shouldLog(lv) THEN L
    ELSE LET L1 == IF enableConsole THEN [L EXCEPT !.console = @ + 1] ELSE L
         IN  writeToFile(L1, lv, meta, size)

\* the logger's output at the start of a call
LoggerOut == [console |-> console, files |-> files,
              written |-> written, rotations |-> rotations,
              stderr |-> stderr, threw |-> FALSE]

LoggerBecomes(L) ==
    /\ console' = L.console
    /\ files' = L.files
    /\ written' = L.written
    /\ rotations' = L.rotations
    /\ stderr' = L.stderr
    /\ logThrew' = L.threw

\* the configuration of the logger and the condition of the file system
LoggerConfigUnchanged ==
    UNCHANGED <<level, enableConsole, enableFile, maxFileSize, maxFiles, failing>>

\* Logger.constructor with the given options, on an empty log directory
LoggerConstructed(optLevel, optConsole, optFile, optSize, optFiles) ==
    /\ level = optLevel
    /\ enableConsole = optConsole
    /\ enableFile = optFile
    /\ maxFileSize = (IF optSize = 0 THEN DefaultMaxFileSize ELSE optSize)
    /\ maxFiles = (IF optFiles = 0 THEN DefaultMaxFiles ELSE optFiles)
    /\ console = 0
    /\ files = [f \in {} |-> <<>>]
    /\ written = 0
    /\ rotations = [lv \in Levels |-> 0]
    /\ stderr = 0
    /\ logThrew = FALSE
    /\ failing = NoFault
    /\ ncalls = 0

\* Logger.log / error / warn / info / debug called by the application
\* without metadata (meta = {})
log(lv, size) ==
    /\ ncalls < MaxCalls
    /\ ncalls' = ncalls + 1
    /\ LoggerBecomes(logOn(LoggerOut, lv, NoMeta, size))
    /\ LoggerConfigUnchanged

\* Logger.log / error / warn / info / debug called with metadata
logMeta(lv, meta, size) ==
    /\ ncalls' = ncalls + 1
    /\ LoggerBecomes(logOn(LoggerOut, lv, meta, size))
    /\ LoggerConfigUnchanged

\* the file system starts or stops failing one of its calls
fsChanges(f) ==
    /\ failing # f
    /\ failing' = f
    /\ UNCHANGED <<level, enableConsole, enableFile, maxFileSize, maxFiles,
                   loggerOutVars, ncalls>>

LoggerInit ==
    \E optLevel \in Levels, optConsole \in BOOLEAN, optFile \in BOOLEAN,
       optSize \in MaxFileSizeOpts, optFiles \in MaxFilesOpts :
        LoggerConstructed(optLevel, optConsole, optFile, optSize, optFiles)

(***************************************************************************)
(* MetricsCollector                                                        *)
(***************************************************************************)
Names == {"x"}
LabelKeys == {"a", "b"}
LabelVals == {"1", "2"}
LabelPairs == LabelKeys \X LabelVals

\* the labels objects passed by callers: the entries in insertion order,
\* every key at most once
LabelInputs ==
    {<< >>} \cup {<<p>> : p \in LabelPairs}
            \cup {<<pq[1], pq[2]>> :
                     pq \in {r \in LabelPairs \X LabelPairs : r[1][1] # r[2][1]}}

CounterDeltas == {1}
GaugeValues == {7}
HistValues == {1, 2}

\* String.prototype.localeCompare on the label keys: negative, 0 or positive
KeyRank == [a |-> 1, b |-> 2]
localeCompare(a, b) == KeyRank[a] - KeyRank[b]

\* Array.prototype.sort with the comparator of getMetricKey (stable)
RECURSIVE InsertEntry(_, _)
InsertEntry(e, s) ==
    IF s = << >> THEN <<e>>
    ELSE IF localeCompare(e[1], Head(s)[1]) < 0 THEN <<e>> \o s
         ELSE <<Head(s)>> \o InsertEntry(e, Tail(s))

RECURSIVE SortEntries(_)
SortEntries(s) ==
    IF s = << >> THEN << >>
    ELSE InsertEntry(s[Len(s)], SortEntries(SubSeq(s, 1, Len(s) - 1)))

\* getMetricKey without the sort of the entries
getMetricKeyUnsorted(name, labels) == <<name, labels>>

\* MetricsCollector.getMetricKey: the key string `name{k1="v1",k2="v2"}` is
\* the name followed by the rendered entries in sorted order
getMetricKey(name, labels) == <<name, SortEntries(labels)>>

\* Array.prototype.sort with the comparator (a, b) => a - b
RECURSIVE InsertNum(_, _)
InsertNum(x, s) ==
    IF s = << >> THEN <<x>>
    ELSE IF x - Head(s) < 0 THEN <<x>> \o s
         ELSE <<Head(s)>> \o InsertNum(x, Tail(s))

RECURSIVE SortAsc(_)
SortAsc(s) ==
    IF s = << >> THEN << >>
    ELSE InsertNum(s[Len(s)], SortAsc(SubSeq(s, 1, Len(s) - 1)))

\* values.reduce((a, b) => a + b, 0)
RECURSIVE SumOf(_)
SumOf(s) == IF s = << >> THEN 0 ELSE Head(s) + SumOf(Tail(s))

\* the index with the quantile taken over the gaps between the values
PIndexGaps(count, q) == ((count - 1) * q) \div 100

\* Math.floor(count * 0.5), Math.floor(count * 0.95), Math.floor(count * 0.99)
\* with q = 50, 95, 99; the doubles give the exact floor for count <= 1000
PIndex(count, q) == (count * q) \div 100

\* Array.prototype.slice(-n)
sliceLast(s, n) == IF Len(s) <= n THEN s ELSE SubSeq(s, Len(s) - n + 1, Len(s))

\* the series objects: a counter or gauge has value, a histogram has values
NewCounter(labels) ==
    [type |-> "counter", hasValue |-> TRUE, value |-> 0, nan |-> FALSE,
     hasValues |-> FALSE, values |-> << >>, labels |-> labels]

NewGauge(v, labels) ==
    [type |-> "gauge", hasValue |-> TRUE, value |-> v, nan |-> FALSE,
     hasValues |-> FALSE, values |-> << >>, labels |-> labels]

NewHistogram(labels) ==
    [type |-> "histogram", hasValue |-> FALSE, value |-> 0, nan |-> FALSE,
     hasValues |-> TRUE, values |-> << >>, labels |-> labels]

\* this.metrics.set(key, m)
MapSet(map, key, m) ==
    [k \in DOMAIN map \cup {key} |-> IF k = key THEN m ELSE map[k]]

\* this.metrics.get(key) || dflt
GetOr(key, dflt) == IF key \in DOMAIN metrics THEN metrics[key] ELSE dflt

\* the entry of getMetrics() for a histogram whose values are sorted
HistogramEntry(values) ==
    LET count == Len(values)
    IN  [type |-> "histogram",
         count |-> count,
         sum |-> SumOf(values),
         min |-> IF count > 0 THEN values[1] ELSE 0,
         max |-> IF count > 0 THEN values[count] ELSE 0,
         p50 |-> IF count > 0 THEN values[PIndex(count, 50) + 1] ELSE 0,
         p95 |-> IF count > 0 THEN values[PIndex(count, 95) + 1] ELSE 0,
         p99 |-> IF count > 0 THEN values[PIndex(count, 99) + 1] ELSE 0]

ScalarEntry(m) ==
    [type |-> m.type, hasValue |-> m.hasValue, value |-> m.value, nan |-> m.nan]

MetricsConstructed ==
    /\ metrics = [k \in {} |-> 0]
    /\ snapshot = [k \in {} |-> 0]
    /\ raised = FALSE
    /\ observed = [k \in {} |-> << >>]
    /\ counted = [k \in {} |-> << >>]
    /\ labelsSeen = {}
    /\ nops = 0
    /\ collecting = FALSE
    /\ sampleTimers = 0
    /\ nsamples = 0
    /\ ncollectorCmds = 0

\* counter assigning the value instead of adding it
counterAssign(name, value, labels) ==
    LET key == getMetricKey(name, labels)
        existing == GetOr(key, NewCounter(labels))
    IN  /\ metrics' = MapSet(metrics, key,
                             [existing EXCEPT !.hasValue = TRUE, !.value = value])
        /\ counted' = MapSet(counted, key,
                             Append(IF key \in DOMAIN counted
                                    THEN counted[key] ELSE << >>, value))
        /\ raised' = FALSE
        /\ labelsSeen' = labelsSeen \cup {<<name, labels>>}
        /\ nops' = nops + 1
        /\ UNCHANGED <<snapshot, observed, collectorLoopVars>>

\* counter(name, value = 1, labels): the value used when the caller gives none
DefaultDelta == 1

\* MetricsCollector.counter: undefined + number is NaN when the series
\* object found under the key has no value
counter(name, value, labels) ==
    LET key == getMetricKey(name, labels)
        existing == GetOr(key, NewCounter(labels))
        updated == IF existing.hasValue
                   THEN [existing EXCEPT !.value = @ + value]
                   ELSE [existing EXCEPT !.hasValue = TRUE, !.nan = TRUE]
    IN  /\ metrics' = MapSet(metrics, key, updated)
        /\ counted' = MapSet(counted, key,
                             Append(IF key \in DOMAIN counted
                                    THEN counted[key] ELSE << >>, value))
        /\ raised' = FALSE
        /\ labelsSeen' = labelsSeen \cup {<<name, labels>>}
        /\ nops' = nops + 1
        /\ UNCHANGED <<snapshot, observed, collectorLoopVars>>

\* this.metrics after gauge(name, value, labels) on the map m
gaugeOn(m, name, value, labels) ==
    MapSet(m, getMetricKey(name, labels), NewGauge(value, labels))

\* MetricsCollector.gauge
gauge(name, value, labels) ==
    LET key == getMetricKey(name, labels)
    IN  /\ metrics' = gaugeOn(metrics, name, value, labels)
        /\ raised' = FALSE
        /\ labelsSeen' = labelsSeen \cup {<<name, labels>>}
        /\ nops' = nops + 1
        /\ UNCHANGED <<snapshot, observed, counted, collectorLoopVars>>

\* histogram without the cut of the value list
histogramUncapped(name, value, labels) ==
    LET key == getMetricKey(name, labels)
        existing == GetOr(key, NewHistogram(labels))
        pushed == Append(existing.values, value)
    IN  /\ IF existing.hasValues
           THEN /\ metrics' = MapSet(metrics, key, [existing EXCEPT !.values = pushed])
                /\ raised' = FALSE
           ELSE /\ metrics' = metrics
                /\ raised' = TRUE
        /\ observed' = MapSet(observed, key,
                              Append(IF key \in DOMAIN observed
                                     THEN observed[key] ELSE << >>, value))
        /\ labelsSeen' = labelsSeen \cup {<<name, labels>>}
        /\ nops' = nops + 1
        /\ UNCHANGED <<snapshot, counted, collectorLoopVars>>

\* MetricsCollector.histogram: existing.values.push throws a TypeError when
\* the series object found under the key has no values
histogram(name, value, labels) ==
    LET key == getMetricKey(name, labels)
        existing == GetOr(key, NewHistogram(labels))
        pushed == Append(existing.values, value)
        kept == IF Len(pushed) > HistogramCap
                THEN sliceLast(pushed, HistogramCap) ELSE pushed
    IN  /\ IF existing.hasValues
           THEN /\ metrics' = MapSet(metrics, key, [existing EXCEPT !.values = kept])
                /\ raised' = FALSE
           ELSE /\ metrics' = metrics
                /\ raised' = TRUE
        /\ observed' = MapSet(observed, key,
                              Append(IF key \in DOMAIN observed
                                     THEN observed[key] ELSE << >>, value))
        /\ labelsSeen' = labelsSeen \cup {<<name, labels>>}
        /\ nops' = nops + 1
        /\ UNCHANGED <<snapshot, counted, collectorLoopVars>>

\* MetricsCollector.getMetrics: metric.values.sort sorts the stored array
getMetrics ==
    /\ metrics' = [k \in DOMAIN metrics |->
                      IF metrics[k].type = "histogram"
                      THEN [metrics[k] EXCEPT !.values = SortAsc(@)]
                      ELSE metrics[k]]
    /\ snapshot' = [k \in DOMAIN metrics |->
                      IF metrics[k].type = "histogram"
                      THEN HistogramEntry(SortAsc(metrics[k].values))
                      ELSE ScalarEntry(metrics[k])]
    /\ raised' = FALSE
    /\ nops' = nops + 1
    /\ UNCHANGED <<observed, counted, labelsSeen, collectorLoopVars>>

\* the readings of process.memoryUsage(), process.uptime() and
\* process.cpuUsage() at one sample
Samples ==
    {[rss |-> v, heapUsed |-> v, heapTotal |-> v + 1, external |-> 1,
      uptime |-> v, user |-> v, system |-> 1] : v \in {1, 2}}

\* the seven gauge calls of collectSystemMetrics (server.js:665-674)
SampleGauges(r) ==
    <<<<"process_memory_usage_bytes", r.rss, <<<<"type", "rss">>>>>>,
      <<"process_memory_usage_bytes", r.heapUsed, <<<<"type", "heap_used">>>>>>,
      <<"process_memory_usage_bytes", r.heapTotal, <<<<"type", "heap_total">>>>>>,
      <<"process_memory_usage_bytes", r.external, <<<<"type", "external">>>>>>,
      <<"process_uptime_seconds", r.uptime, << >>>>,
      <<"process_cpu_usage_microseconds", r.user, <<<<"type", "user">>>>>>,
      <<"process_cpu_usage_microseconds", r.system, <<<<"type", "system">>>>>>>>

\* this.metrics after the first n gauge calls of a sample
RECURSIVE GaugesOn(_, _, _)
GaugesOn(m, calls, n) ==
    IF n = 0 THEN m
    ELSE gaugeOn(GaugesOn(m, calls, n - 1), calls[n][1], calls[n][2], calls[n][3])

\* the body of collectSystemMetrics once isRunning was found set: the
\* sample, then the next timer when isRunning is still set
Collect(tm) ==
    \E r \in Samples :
        LET calls == SampleGauges(r)
        IN  /\ metrics' = GaugesOn(metrics, calls, Len(calls))
            /\ labelsSeen' = labelsSeen
                    \cup {<<calls[i][1], calls[i][3]>> : i \in DOMAIN calls}
            /\ nops' = nops + Len(calls)
            /\ raised' = FALSE
            /\ nsamples' = nsamples + 1
            /\ sampleTimers' = tm + 1
            /\ UNCHANGED <<snapshot, observed, counted>>

\* collectorStart without the test of isRunning
collectorStartUnguarded ==
    /\ ncollectorCmds' = ncollectorCmds + 1
    /\ collecting' = TRUE
    /\ LoggerBecomes(logOn(LoggerOut, "info", NoMeta, 1))
    /\ Collect(sampleTimers)
    /\ LoggerConfigUnchanged
    /\ UNCHANGED <<ncalls, healthVars>>

\* MetricsCollector.start
collectorStart ==
    /\ ncollectorCmds' = ncollectorCmds + 1
    /\ IF collecting
       THEN UNCHANGED <<metrics, snapshot, raised, observed, counted, labelsSeen, nops,
                        collecting, sampleTimers, nsamples, loggerOutVars>>
       ELSE /\ collecting' = TRUE
            /\ LoggerBecomes(logOn(LoggerOut, "info", NoMeta, 1))
            /\ Collect(sampleTimers)
    /\ LoggerConfigUnchanged
    /\ UNCHANGED <<ncalls, healthVars>>

\* MetricsCollector.stop
collectorStop ==
    /\ ncollectorCmds' = ncollectorCmds + 1
    /\ collecting' = FALSE
    /\ LoggerBecomes(logOn(LoggerOut, "info", NoMeta, 1))
    /\ UNCHANGED <<metrics, snapshot, raised, observed, counted, labelsSeen, nops,
                   sampleTimers, nsamples>>
    /\ LoggerConfigUnchanged
    /\ UNCHANGED <<ncalls, healthVars>>

\* a setTimeout(collectSystemMetrics, collectInterval) timer fires
collectSystemMetrics ==
    /\ sampleTimers > 0
    /\ IF collecting
       THEN Collect(sampleTimers - 1)
       ELSE /\ sampleTimers' = sampleTimers - 1
            /\ UNCHANGED <<metrics, snapshot, raised, observed, counted, labelsSeen,
                           nops, nsamples>>
    /\ UNCHANGED <<collecting, ncollectorCmds>>
    /\ UNCHANGED <<loggerVars, healthVars>>

\* a collector holding one histogram series with the given values
MetricsHolding(values) ==
    /\ metrics = (getMetricKey("x", << >>) :>
                    [NewHistogram(<< >>) EXCEPT !.values = values])
    /\ snapshot = [k \in {} |-> 0]
    /\ raised = FALSE
    /\ observed = (getMetricKey("x", << >>) :> values)
    /\ counted = [k \in {} |-> << >>]
    /\ labelsSeen = {<<"x", << >>>>}
    /\ nops = 0
    /\ collecting = FALSE
    /\ sampleTimers = 0
    /\ nsamples = 0
    /\ ncollectorCmds = 0

\* the value lists read out in StatsSpec: every list of 1..MaxStatsLen values
\* among StatsValues, and the values 1..10 in two orders
MaxStatsLen == 4
StatsValues == {1, 2, 3}
StatsInputs ==
    UNION {[1..n -> StatsValues] : n \in 1..MaxStatsLen}
      \cup {<<1, 2, 3, 4, 5, 6, 7, 8, 9, 10>>, <<7, 3, 10, 1, 9, 5, 2, 8, 6, 4>>}

StatsInit == \E values \in StatsInputs : MetricsHolding(values)

(***************************************************************************)
(* HealthMonitor                                                           *)
(***************************************************************************)
CheckNames == {"db", "fs"}

\* options.maxHistorySize || 100, server.js:422
DefaultMaxHistorySize == 100
\* option values handed to the constructor; 0 stands for "not given"
MaxHistorySizeOpts == {0, 1}

\* an invocation of a check function either settles at some time or never
Plans == {"settles", "never"}

\* how the promise of a check function settles: it resolves, rejects with
\* an Error, rejects with a string, or rejects with null or undefined
Outcomes == {"resolve", "reject_error", "reject_string", "reject_null"}

\* a check function that is not async throws an Error when called
SyncOutcomes == {"throw_error"}

Slots == 1..MaxCycles

\* lastResult: null
NoResult == [name |-> "", status |-> "none", hasCritical |-> FALSE,
             critical |-> FALSE, error |-> "", reg |-> FALSE]

\* the checkResult of the try branch of runCheck; reg records the critical
\* flag of the config that ran
HealthyResult(cfg) ==
    [name |-> cfg.name, status |-> "healthy", hasCritical |-> FALSE,
     critical |-> FALSE, error |-> "", reg |-> cfg.critical]

\* the checkResult of the catch branch of runCheck, error being error.message
UnhealthyResult(cfg, message) ==
    [name |-> cfg.name, status |-> "unhealthy", hasCritical |-> TRUE,
     critical |-> cfg.critical, error |-> message, reg |-> cfg.critical]

\* error.message of new Error('Health check timeout')
TimeoutMessage == "Health check timeout"

\* error.message of what the check function rejected with
MessageOf(outcome) ==
    IF outcome \in {"reject_error", "throw_error"} THEN "check failed" ELSE "undefined"

IdleCycle == [pc |-> "idle", byLoop |-> FALSE, run |-> 0, idx |-> 0,
              results |-> << >>, cur |-> [name |-> "", critical |-> FALSE],
              plan |-> "", stale |-> FALSE]

\* r.critical of a result, undefined (falsy) on a healthy result
IsCritical(r) == r.hasCritical /\ r.critical

\* healthReport with criticalFailures counted over every unhealthy result
healthReportAllFailures(results) ==
    LET idxs == DOMAIN results
    IN  [status |-> IF \A i \in idxs : results[i].status = "healthy"
                    THEN "healthy" ELSE "unhealthy",
         checks |-> results,
         criticalFailures |->
            Cardinality({i \in idxs : results[i].status = "unhealthy"}),
         totalChecks |-> Len(results),
         healthyChecks |->
            Cardinality({i \in idxs : results[i].status = "healthy"})]

\* healthReport whose status looks at the critical failures only
healthReportCriticalOnly(results) ==
    LET idxs == DOMAIN results
    IN  [status |-> IF \A i \in idxs : ~(results[i].status = "unhealthy"
                                          /\ IsCritical(results[i]))
                    THEN "healthy" ELSE "unhealthy",
         checks |-> results,
         criticalFailures |->
            Cardinality({i \in idxs : results[i].status = "unhealthy"
                                      /\ IsCritical(results[i])}),
         totalChecks |-> Len(results),
         healthyChecks |->
            Cardinality({i \in idxs : results[i].status = "healthy"})]

\* the healthReport built by runAllChecks from the results
healthReport(results) ==
    LET idxs == DOMAIN results
    IN  [status |-> IF \A i \in idxs : results[i].status = "healthy"
                    THEN "healthy" ELSE "unhealthy",
         checks |-> results,
         criticalFailures |->
            Cardinality({i \in idxs : results[i].status = "unhealthy"
                                      /\ IsCritical(results[i])}),
         totalChecks |-> Len(results),
         healthyChecks |->
            Cardinality({i \in idxs : results[i].status = "healthy"})]

\* unshiftCapped cutting the history at its front
unshiftCappedDropNewest(h, report) ==
    LET h1 == <<report>> \o h
    IN  IF Len(h1) > maxHistorySize
        THEN SubSeq(h1, Len(h1) - maxHistorySize + 1, Len(h1)) ELSE h1

\* this.history.unshift(report), then slice(0, maxHistorySize) when longer
unshiftCapped(h, report) ==
    LET h1 == <<report>> \o h
    IN  IF Len(h1) > maxHistorySize THEN SubSeq(h1, 1, maxHistorySize) ELSE h1

\* the entries of this.checks visited from the last one
ConfigAtReversed(i) ==
    [name |-> checks[Len(checks) + 1 - i].name,
     critical |-> checks[Len(checks) + 1 - i].critical]

\* the config object of the i-th entry of this.checks
ConfigAt(i) == [name |-> checks[i].name, critical |-> checks[i].critical]

\* the entries of this.checks after addCheck calls on a new monitor
Registrations ==
    LET entry(n, crit) == [name |-> n, critical |-> crit, lastResult |-> NoResult]
    IN  {<<entry(n, crit)>> : n \in CheckNames, crit \in BOOLEAN}
          \cup {<<entry(nn[1], cc[1]), entry(nn[2], cc[2])>> :
                   nn \in {m \in CheckNames \X CheckNames : m[1] # m[2]},
                   cc \in BOOLEAN \X BOOLEAN}

\* nothing was asked of the monitor yet
NoReply == [op |-> "none"]

\* HealthMonitor.constructor followed by the addCheck calls that register
\* the entries registered
HealthRegistered(optHist, registered) ==
    /\ checks = registered
    /\ history = << >>
    /\ maxHistorySize = (IF optHist = 0 THEN DefaultMaxHistorySize ELSE optHist)
    /\ isRunning = FALSE
    /\ cycles = [c \in Slots |-> IdleCycle]
    /\ timers = 0
    /\ ret = [c \in Slots |-> [run |-> 0, idx |-> 0, plan |-> "", result |-> NoResult]]
    /\ produced = << >>
    /\ nruns = 0
    /\ nadds = 0
    /\ ncmds = 0
    /\ reply = NoReply
    /\ losers = [c \in Slots |-> "none"]
    /\ unhandledRejection = FALSE

\* HealthMonitor.constructor
HealthConstructed(optHist) == HealthRegistered(optHist, << >>)

\* HealthMonitor.addCheck: Map.set keeps the position of an existing name
\* and replaces its config object; a runCheck in flight keeps the old object
addCheck(name, critical) ==
    LET fresh == [name |-> name, critical |-> critical, lastResult |-> NoResult]
        at == {i \in DOMAIN checks : checks[i].name = name}
    IN  /\ nadds' = nadds + 1
        /\ IF at = {}
           THEN /\ checks' = Append(checks, fresh)
                /\ cycles' = cycles
           ELSE /\ checks' = [i \in DOMAIN checks |->
                                IF i \in at THEN fresh ELSE checks[i]]
                /\ cycles' = [c \in Slots |->
                                IF cycles[c].pc = "await" /\ cycles[c].idx \in at
                                THEN [cycles[c] EXCEPT !.stale = TRUE]
                                ELSE cycles[c]]
        /\ UNCHANGED <<history, maxHistorySize, isRunning, timers, ret,
                       produced, nruns, ncmds>>
        /\ UNCHANGED <<loggerVars, metricsVars>> /\ reply' = NoReply /\ UNCHANGED raceVars

\* the end of runAllChecks (server.js:493-518) in slot c, followed, in a
\* cycle begun by runChecks, by the rescheduling of server.js:536-538;
\* L is the logger's output so far in this step
Finish(c, results, byLoop, running, tm, L) ==
    LET report == healthReport(results)
    IN  /\ history' = unshiftCapped(history, report)
        /\ produced' = Append(produced,
                              [report |-> report,
                               registered |-> [i \in DOMAIN checks |-> checks[i].name],
                               running |-> running])
        /\ cycles' = [cycles EXCEPT ![c] = IdleCycle]
        /\ timers' = IF byLoop /\ running THEN tm + 1 ELSE tm
        /\ LoggerBecomes(IF report.criticalFailures > 0
                         THEN logOn(L, "error", FailuresMeta, 1) ELSE L)

\* runAllChecks() begins in slot c: with no check registered it completes
\* at once, otherwise it invokes the first check function and awaits
BeginCycle(c, byLoop, running, tm, L) ==
    /\ nruns' = nruns + 1
    /\ IF checks = << >>
       THEN Finish(c, << >>, byLoop, running, tm, L)
       ELSE /\ \E plan \in Plans :
                 cycles' = [cycles EXCEPT ![c] =
                              [pc |-> "await", byLoop |-> byLoop,
                               run |-> nruns + 1, idx |-> 1, results |-> << >>,
                               cur |-> ConfigAt(1), plan |-> plan,
                               stale |-> FALSE]]
            /\ history' = history
            /\ produced' = produced
            /\ timers' = tm
            /\ LoggerBecomes(L)

\* the slot taken by a new runAllChecks() call
FreeSlot(c) == cycles[c].pc = "idle" /\ \A d \in Slots : d < c => cycles[d].pc # "idle"

\* runCheck of slot c returns result r (server.js:450-463 or 465-481), and
\* runAllChecks goes on: next check, or the report
Settle(c, r, loser) ==
    LET cyc == cycles[c]
        results == Append(cyc.results, r)
        L == IF r.status = "unhealthy"
             THEN logOn(LoggerOut, "error", ErrorDurationMeta, 1) ELSE LoggerOut
    IN  /\ checks' = IF cyc.stale THEN checks
                     ELSE [checks EXCEPT ![cyc.idx].lastResult = r]
        /\ ret' = [ret EXCEPT ![c] = [run |-> cyc.run, idx |-> cyc.idx,
                                      plan |-> cyc.plan, result |-> r]]
        /\ IF cyc.idx < Len(checks)
           THEN /\ \E plan \in Plans :
                     cycles' = [cycles EXCEPT ![c] =
                                  [cyc EXCEPT !.idx = cyc.idx + 1,
                                              !.results = results,
                                              !.cur = ConfigAt(cyc.idx + 1),
                                              !.plan = plan,
                                              !.stale = FALSE]]
                /\ history' = history
                /\ produced' = produced
                /\ timers' = timers
                /\ LoggerBecomes(L)
           ELSE Finish(c, results, cyc.byLoop, isRunning, timers, L)
        /\ UNCHANGED <<maxHistorySize, isRunning, nruns, nadds, ncmds>>
        /\ LoggerConfigUnchanged
        /\ UNCHANGED <<ncalls, metricsVars>> /\ reply' = NoReply
        /\ losers' = [losers EXCEPT ![c] = loser]
        /\ UNCHANGED unhandledRejection

\* runChecks that does not reschedule after a cycle that threw
AbortEndsLoop(c) ==
    LET cyc == cycles[c]
    IN  /\ cycles' = [cycles EXCEPT ![c] = IdleCycle]
        /\ timers' = timers
        /\ LoggerBecomes(IF cyc.byLoop THEN logOn(LoggerOut, "error", ErrorMeta, 1)
                         ELSE LoggerOut)
        /\ UNCHANGED <<checks, history, maxHistorySize, isRunning, ret,
                       produced, nruns, nadds, ncmds>>
        /\ LoggerConfigUnchanged
        /\ UNCHANGED <<ncalls, metricsVars>> /\ reply' = NoReply
        /\ losers' = [losers EXCEPT ![c] = "timer"]
        /\ UNCHANGED unhandledRejection

\* the catch block of runCheck throws on error.message (error is null or
\* undefined): runCheck and runAllChecks reject; runChecks catches, logs and
\* reschedules (server.js:532-538)
Abort(c) ==
    LET cyc == cycles[c]
    IN  /\ cycles' = [cycles EXCEPT ![c] = IdleCycle]
        /\ timers' = IF cyc.byLoop /\ isRunning THEN timers + 1 ELSE timers
        /\ LoggerBecomes(IF cyc.byLoop THEN logOn(LoggerOut, "error", ErrorMeta, 1)
                         ELSE LoggerOut)
        /\ UNCHANGED <<checks, history, maxHistorySize, isRunning, ret,
                       produced, nruns, nadds, ncmds>>
        /\ LoggerConfigUnchanged
        /\ UNCHANGED <<ncalls, metricsVars>> /\ reply' = NoReply
        /\ losers' = [losers EXCEPT ![c] = "timer"]
        /\ UNCHANGED unhandledRejection

\* the check function of slot c settles before the timeout timer fires
FnSettles(c, outcome) ==
    /\ cycles[c].pc = "await"
    /\ cycles[c].plan # "never"
    /\ IF outcome = "resolve" THEN Settle(c, HealthyResult(cycles[c].cur), "timer")
       ELSE IF outcome = "reject_null" THEN Abort(c)
       ELSE Settle(c, UnhealthyResult(cycles[c].cur, MessageOf(outcome)),
                   IF outcome \in SyncOutcomes THEN "orphan" ELSE "timer")

\* runCheck with a timer that is cleared when the check function is the
\* kind that never settles
TimeoutFiresIfSettling(c) ==
    /\ cycles[c].pc = "await"
    /\ cycles[c].plan # "never"
    /\ Settle(c, UnhealthyResult(cycles[c].cur, TimeoutMessage),
              IF cycles[c].plan = "never" THEN "none" ELSE "fn")

\* the timeout timer of runCheck fires before the check function settled
TimeoutFires(c) ==
    /\ cycles[c].pc = "await"
    /\ Settle(c, UnhealthyResult(cycles[c].cur, TimeoutMessage),
              IF cycles[c].plan = "never" THEN "none" ELSE "fn")

\* the check function of the last race of slot c settles after its timeout
\* result was returned: the promise of Promise.race is settled already and
\* ignores it
LateFnSettles(c) ==
    /\ losers[c] = "fn"
    /\ losers' = [losers EXCEPT ![c] = "none"]
    /\ UNCHANGED <<checks, history, maxHistorySize, isRunning, cycles, timers,
                   ret, produced, nruns, nadds, ncmds, reply, unhandledRejection>>
    /\ UNCHANGED <<loggerVars, metricsVars>>

\* the timeout timer of the last race of slot c fires after the check
\* function ended (server.js:442): it rejects timeoutPromise, which
\* Promise.race holds a handler on, unless the check function threw before
\* Promise.race was called (server.js:445-446)
LateTimeoutFires(c) ==
    /\ losers[c] \in {"timer", "orphan"}
    /\ losers' = [losers EXCEPT ![c] = "none"]
    /\ unhandledRejection' = (unhandledRejection \/ losers[c] = "orphan")
    /\ UNCHANGED <<checks, history, maxHistorySize, isRunning, cycles, timers,
                   ret, produced, nruns, nadds, ncmds, reply>>
    /\ UNCHANGED <<loggerVars, metricsVars>>

\* runAllChecks() called by the application
runAllChecks ==
    /\ \E c \in Slots :
          /\ FreeSlot(c)
          /\ BeginCycle(c, FALSE, isRunning, timers, LoggerOut)
    /\ UNCHANGED <<checks, maxHistorySize, isRunning, ret, nadds, ncmds>>
    /\ LoggerConfigUnchanged
    /\ UNCHANGED <<ncalls, metricsVars>> /\ reply' = NoReply /\ UNCHANGED raceVars

\* start without the test of isRunning
startUnguarded ==
    /\ ncmds' = ncmds + 1
    /\ isRunning' = TRUE
    /\ \E c \in Slots :
          /\ FreeSlot(c)
          /\ BeginCycle(c, TRUE, TRUE, timers, logOn(LoggerOut, "info", NoMeta, 1))
    /\ UNCHANGED <<checks, maxHistorySize, ret, nadds>>
    /\ LoggerConfigUnchanged
    /\ UNCHANGED <<ncalls, metricsVars>> /\ reply' = NoReply /\ UNCHANGED raceVars

\* HealthMonitor.start
start ==
    /\ ncmds' = ncmds + 1
    /\ IF isRunning
       THEN UNCHANGED <<checks, history, maxHistorySize, isRunning, cycles,
                        timers, ret, produced, nruns, nadds, loggerOutVars>>
       ELSE /\ isRunning' = TRUE
            /\ \E c \in Slots :
                  /\ FreeSlot(c)
                  /\ BeginCycle(c, TRUE, TRUE, timers, logOn(LoggerOut, "info", NoMeta, 1))
            /\ UNCHANGED <<checks, maxHistorySize, ret, nadds>>
    /\ LoggerConfigUnchanged
    /\ UNCHANGED <<ncalls, metricsVars>> /\ reply' = NoReply /\ UNCHANGED raceVars

\* HealthMonitor.stop
stop ==
    /\ ncmds' = ncmds + 1
    /\ isRunning' = FALSE
    /\ LoggerBecomes(logOn(LoggerOut, "info", NoMeta, 1))
    /\ UNCHANGED <<checks, history, maxHistorySize, cycles, timers, ret,
                   produced, nruns, nadds>>
    /\ LoggerConfigUnchanged
    /\ UNCHANGED <<ncalls, metricsVars>> /\ reply' = NoReply /\ UNCHANGED raceVars

\* runChecks without the test of isRunning at its entry
IntervalFiresUnguarded ==
    /\ timers > 0
    /\ \E c \in Slots :
          /\ FreeSlot(c)
          /\ BeginCycle(c, TRUE, isRunning, timers - 1, LoggerOut)
    /\ UNCHANGED <<checks, maxHistorySize, isRunning, ret, nadds, ncmds>>
    /\ LoggerConfigUnchanged
    /\ UNCHANGED <<ncalls, metricsVars>> /\ reply' = NoReply /\ UNCHANGED raceVars

\* a setTimeout(runChecks, checkInterval) timer fires: runChecks
IntervalFires ==
    /\ timers > 0
    /\ IF isRunning
       THEN /\ \E c \in Slots :
                  /\ FreeSlot(c)
                  /\ BeginCycle(c, TRUE, TRUE, timers - 1, LoggerOut)
       ELSE /\ timers' = timers - 1
            /\ UNCHANGED <<history, produced, cycles, nruns, loggerOutVars>>
    /\ UNCHANGED <<checks, maxHistorySize, isRunning, ret, nadds, ncmds>>
    /\ LoggerConfigUnchanged
    /\ UNCHANGED <<ncalls, metricsVars>> /\ reply' = NoReply /\ UNCHANGED raceVars

\* the object getStatus() returns while the history is empty
UnknownReport ==
    [status |-> "unknown", checks |-> << >>, criticalFailures |-> 0,
     totalChecks |-> 0, healthyChecks |-> 0]

\* getStatus returning the last entry of the history
getStatusOldest == IF history # << >> THEN history[Len(history)] ELSE UnknownReport

\* HealthMonitor.getStatus: this.history[0] || {status: 'unknown', ...}
getStatus == IF history # << >> THEN history[1] ELSE UnknownReport

\* Array.prototype.slice(0, n) for an integer n >= 0
sliceFirst(s, n) == IF Len(s) <= n THEN s ELSE SubSeq(s, 1, n)

\* getHistory taking the entries from the end of the history
getHistoryOldest(limit) == sliceLast(history, limit)

\* HealthMonitor.getHistory
getHistory(limit) == sliceFirst(history, limit)

\* getHistory(limit = 10): the limit used when the caller gives none
DefaultHistoryLimit == 10

\* the application calls getStatus()
callGetStatus ==
    /\ reply' = [op |-> "getStatus", value |-> getStatus]
    /\ UNCHANGED raceVars
    /\ UNCHANGED <<checks, history, maxHistorySize, isRunning, cycles, timers,
                   ret, produced, nruns, nadds, ncmds>>
    /\ UNCHANGED <<loggerVars, metricsVars>>

\* the application calls getHistory(limit), or getHistory() when given is FALSE
callGetHistory(given, limit) ==
    LET lim == IF given THEN limit ELSE DefaultHistoryLimit
    IN  /\ reply' = [op |-> "getHistory", limit |-> lim, value |-> getHistory(lim)]
        /\ UNCHANGED raceVars
        /\ UNCHANGED <<checks, history, maxHistorySize, isRunning, cycles,
                       timers, ret, produced, nruns, nadds, ncmds>>
        /\ UNCHANGED <<loggerVars, metricsVars>>

\* the status of the service with the report's own status left out
serviceStatusCriticalOnly(healthStatus) ==
    IF healthStatus.criticalFailures > 0 THEN "unhealthy"
    ELSE IF healthStatus.healthyChecks < healthStatus.totalChecks THEN "degraded"
    ELSE "ok"

\* health.status as the GET /health handler determines it
\* (src/unnamed/part_001:346, 367-372)
serviceStatus(healthStatus) ==
    IF healthStatus.status = "unhealthy" \/ healthStatus.criticalFailures > 0
    THEN "unhealthy"
    ELSE IF healthStatus.healthyChecks < healthStatus.totalChecks THEN "degraded"
    ELSE "ok"

\* the GET /health handler (src/unnamed/part_001:345-376): it reads
\* getStatus() and getMetrics() and answers 200 for ok, 503 otherwise
healthEndpoint ==
    LET healthStatus == getStatus
        status == serviceStatus(healthStatus)
    IN  /\ getMetrics
        /\ UNCHANGED raceVars
        /\ reply' = [op |-> "health", status |-> status,
                     healthChecks |-> healthStatus,
                     statusCode |-> IF status = "ok" THEN 200 ELSE 503]
        /\ UNCHANGED <<checks, history, maxHistorySize, isRunning, cycles,
                       timers, ret, produced, nruns, nadds, ncmds>>
        /\ UNCHANGED loggerVars

HealthInit == \E optHist \in MaxHistorySizeOpts : HealthConstructed(optHist)

(***************************************************************************)
(* Specifications                                                          *)
(***************************************************************************)
\* the logger handed to the monitor and the collector in their own
\* specifications: new Logger({enableConsole: false}), which prints and
\* writes nothing
SilentLogger == LoggerConstructed("info", FALSE, FALSE, 0, 0)

LoggerSpecInit == LoggerInit /\ MetricsConstructed /\ HealthConstructed(0)
LoggerSpecNext ==
    \E lv \in Levels, size \in RecSizes :
        log(lv, size) /\ UNCHANGED <<metricsVars, healthVars>>
LoggerSpec == LoggerSpecInit /\ [][LoggerSpecNext]_vars

\* the logger writing to a file system whose calls can fail
FaultyLoggerInit ==
    /\ \E optLevel \in Levels, optConsole \in BOOLEAN, optFiles \in MaxFilesOpts :
          LoggerConstructed(optLevel, optConsole, TRUE, 1, optFiles)
    /\ MetricsConstructed /\ HealthConstructed(0)
FaultyLoggerNext ==
    \/ \E lv \in Levels, size \in RecSizes :
          ncalls < MaxFaultyCalls /\ log(lv, size)
            /\ UNCHANGED <<metricsVars, healthVars>>
    \/ \E f \in FaultPoints \cup {NoFault} :
          fsChanges(f) /\ UNCHANGED <<metricsVars, healthVars>>
FaultyLoggerSpec == FaultyLoggerInit /\ [][FaultyLoggerNext]_vars

\* the logger writing records built from the metadata of its callers
MetaLoggerInit ==
    /\ \E optConsole \in BOOLEAN : LoggerConstructed("info", optConsole, TRUE, 0, 0)
    /\ MetricsConstructed /\ HealthConstructed(0)
MetaLoggerNext ==
    \E lv \in Levels, meta \in Metas :
        ncalls < MaxMetaCalls /\ logMeta(lv, meta, 1)
          /\ UNCHANGED <<metricsVars, healthVars>>
MetaLoggerSpec == MetaLoggerInit /\ [][MetaLoggerNext]_vars

MetricsSpecInit == MetricsConstructed /\ SilentLogger /\ HealthConstructed(0)
MetricsSpecNext ==
    \/ \E n \in Names, v \in CounterDeltas, l \in LabelInputs :
          nops < MaxMetricOps /\ counter(n, v, l)
            /\ UNCHANGED <<loggerVars, healthVars>>
    \/ \E n \in Names, v \in GaugeValues, l \in LabelInputs :
          nops < MaxMetricOps /\ gauge(n, v, l)
            /\ UNCHANGED <<loggerVars, healthVars>>
    \/ \E n \in Names, v \in HistValues, l \in LabelInputs :
          nops < MaxMetricOps /\ histogram(n, v, l)
            /\ UNCHANGED <<loggerVars, healthVars>>
    \/ nops < MaxMetricOps /\ getMetrics /\ UNCHANGED <<loggerVars, healthVars>>
MetricsSpec == MetricsSpecInit /\ [][MetricsSpecNext]_vars

\* the sampling loop of the collector, started and stopped by the
\* application; its logger prints to the console
CollectorSpecInit ==
    /\ MetricsConstructed /\ HealthConstructed(0)
    /\ LoggerConstructed("info", TRUE, FALSE, 0, 0)
CollectorNext ==
    \/ ncollectorCmds < MaxCollectorCmds /\ nsamples < MaxSamples /\ collectorStart
    \/ ncollectorCmds < MaxCollectorCmds /\ collectorStop
    \/ nsamples < MaxSamples /\ collectSystemMetrics
    \/ \E v \in CounterDeltas :
          nops < MaxCollectorOps /\ counter("x", v, << >>)
            /\ UNCHANGED <<loggerVars, healthVars>>
CollectorSpec == CollectorSpecInit /\ [][CollectorNext]_vars

\* counters written by counter(name, delta, labels) and counter(name)
\* calls, and read by getMetrics()
Deltas == {-2, 1, 3}
CounterLabels ==
    {<< >>, <<<<"a", "1">>>>, <<<<"a", "1">>, <<"b", "2">>>>,
     <<<<"b", "2">>, <<"a", "1">>>>}
CounterNext ==
    \/ \E v \in Deltas, l \in CounterLabels :
          nops < MaxCounterOps /\ counter("x", v, l)
            /\ UNCHANGED <<loggerVars, healthVars>>
    \/ nops < MaxCounterOps /\ counter("x", DefaultDelta, << >>)
          /\ UNCHANGED <<loggerVars, healthVars>>
    \/ nops < MaxCounterOps /\ getMetrics /\ UNCHANGED <<loggerVars, healthVars>>
CounterSpec == MetricsSpecInit /\ [][CounterNext]_vars

\* getMetrics() on a collector holding one histogram series
StatsSpecInit == StatsInit /\ SilentLogger /\ HealthConstructed(0)
StatsSpecNext == nops < 2 /\ getMetrics /\ UNCHANGED <<loggerVars, healthVars>>
StatsSpec == StatsSpecInit /\ [][StatsSpecNext]_vars

\* one histogram series, written and read
HistogramSpecNext ==
    \/ \E v \in HistValues :
          nops < MaxHistOps /\ histogram("x", v, << >>)
            /\ UNCHANGED <<loggerVars, healthVars>>
    \/ nops < MaxHistOps /\ getMetrics /\ UNCHANGED <<loggerVars, healthVars>>
HistogramSpec == MetricsSpecInit /\ [][HistogramSpecNext]_vars

\* a monitor with some checks registered; checks are added, replaced and
\* run by runAllChecks() calls of the application
HealthSpecInit ==
    /\ \E registered \in Registrations \cup {<< >>} : HealthRegistered(0, registered)
    /\ SilentLogger /\ MetricsConstructed
HealthNext ==
    \/ \E name \in CheckNames, critical \in BOOLEAN :
          nadds < MaxAdds /\ addCheck(name, critical)
    \/ nruns < MaxRuns /\ runAllChecks
    \/ \E c \in Slots, outcome \in Outcomes : FnSettles(c, outcome)
    \/ \E c \in Slots : TimeoutFires(c)
HealthSpec == HealthSpecInit /\ [][HealthNext]_vars

\* the history of a monitor with at most one check, filled by runAllChecks()
\* calls and read by getStatus() and getHistory()
HistorySizeOpts == {0, 1, 2}
Limits == 0..3
HistorySpecInit ==
    /\ \E optHist \in HistorySizeOpts,
          registered \in {r \in Registrations :
                              Len(r) = 1 /\ r[1].name = "db" /\ r[1].critical}
                            \cup {<< >>} :
            HealthRegistered(optHist, registered)
    /\ SilentLogger /\ MetricsConstructed
HistoryNext ==
    \/ nruns < MaxHistRuns /\ runAllChecks
    \/ \E c \in Slots, outcome \in Outcomes : FnSettles(c, outcome)
    \/ \E c \in Slots : TimeoutFires(c)
    \/ callGetStatus
    \/ \E given \in BOOLEAN, limit \in Limits : callGetHistory(given, limit)
HistorySpec == HistorySpecInit /\ [][HistoryNext]_vars

\* the health endpoint of a service whose checks are run by runAllChecks()
EndpointNext ==
    \/ nruns < MaxEndpointRuns /\ runAllChecks
    \/ \E c \in Slots, outcome \in Outcomes : FnSettles(c, outcome)
    \/ \E c \in Slots : TimeoutFires(c)
    \/ nops < MaxEndpointCalls /\ healthEndpoint
EndpointSpec == HealthSpecInit /\ [][EndpointNext]_vars

\* the monitor started and stopped, with its rescheduling loop
MonitorSpecInit == HealthInit /\ SilentLogger /\ MetricsConstructed
MonitorNext ==
    \/ \E name \in CheckNames, critical \in BOOLEAN :
          nadds < MaxLoopAdds /\ addCheck(name, critical)
    \/ nruns < MaxLoopRuns /\ runAllChecks
    \/ \E c \in Slots, outcome \in Outcomes : FnSettles(c, outcome)
    \/ \E c \in Slots : TimeoutFires(c)
    \/ ncmds < MaxCmds /\ nruns < MaxLoopRuns /\ start
    \/ ncmds < MaxCmds /\ stop
    \/ nruns < MaxLoopRuns /\ IntervalFires
MonitorSpec == MonitorSpecInit /\ [][MonitorNext]_vars

\* the rescheduling loop of a monitor with registered checks, started and
\* stopped by the application; its logger prints to the console
LoopSpecInit ==
    /\ \E registered \in {r \in Registrations : r[1].name = "db"} \cup {<< >>} :
          HealthRegistered(0, registered)
    /\ LoggerConstructed("info", TRUE, FALSE, 0, 0) /\ MetricsConstructed
LoopNext ==
    \/ ncmds < MaxLoopCmds /\ nruns < MaxLoopCycles /\ start
    \/ ncmds < MaxLoopCmds /\ stop
    \/ nruns < MaxLoopCycles /\ IntervalFires
    \/ \E c \in Slots, outcome \in Outcomes : FnSettles(c, outcome)
    \/ \E c \in Slots : TimeoutFires(c)
LoopSpec == LoopSpecInit /\ [][LoopNext]_vars

\* a monitor with at most one check that the application starts, stops and
\* starts again
RestartSpecInit ==
    /\ \E registered \in {r \in Registrations :
                              Len(r) = 1 /\ r[1].name = "db" /\ r[1].critical}
                            \cup {<< >>} :
          HealthRegistered(0, registered)
    /\ SilentLogger /\ MetricsConstructed
RestartNext ==
    \/ ncmds < MaxRestartCmds /\ nruns < MaxRestartCycles /\ start
    \/ ncmds < MaxRestartCmds /\ stop
    \/ nruns < MaxRestartCycles /\ IntervalFires
    \/ \E c \in Slots, outcome \in Outcomes : FnSettles(c, outcome)
    \/ \E c \in Slots : TimeoutFires(c)
RestartSpec == RestartSpecInit /\ [][RestartNext]_vars

\* runCheck with the events that follow its return: the check function or
\* the timeout timer that lost the race ends later; an unhandled rejection
\* ends the process
RaceNext ==
    \/ ~unhandledRejection /\ nruns < MaxRaceRuns /\ runAllChecks
    \/ \E c \in Slots, outcome \in Outcomes \cup SyncOutcomes :
          ~unhandledRejection /\ FnSettles(c, outcome)
    \/ \E c \in Slots : ~unhandledRejection /\ TimeoutFires(c)
    \/ \E c \in Slots : ~unhandledRejection /\ LateFnSettles(c)
    \/ \E c \in Slots : ~unhandledRejection /\ LateTimeoutFires(c)
RaceSpec == HealthSpecInit /\ [][RaceNext]_vars

\* runCheck on registered checks; the timeout timer set by runCheck fires
\* once its delay has passed
RunCheckInit ==
    /\ \E registered \in Registrations : HealthRegistered(0, registered)
    /\ SilentLogger /\ MetricsConstructed
RunCheckNext ==
    \/ nruns < MaxTimedRuns /\ runAllChecks
    \/ \E c \in Slots, outcome \in Outcomes : FnSettles(c, outcome)
    \/ \E c \in Slots : TimeoutFires(c)
RunCheckFairSpec ==
    RunCheckInit /\ [][RunCheckNext]_vars /\ \A c \in Slots : WF_vars(TimeoutFires(c))

\* the three components side by side
Init == LoggerInit /\ MetricsConstructed /\ HealthInit
Next == LoggerSpecNext \/ MetricsSpecNext \/ MonitorNext
Spec == Init /\ [][Next]_vars

(***************************************************************************)
(* Logger: properties                                                      *)
(***************************************************************************)
\* severity order of the four levels, most severe first
Severity == [error |-> 0, warn |-> 1, info |-> 2, debug |-> 3]

\* the generations of a level's file that exist in the log directory
Generations(lv) == {f[2] : f \in {g \in DOMAIN files : g[1] = lv /\ g[2] >= 1}}

\* the files of a level, live file included
FilesOf(lv) == {f \in DOMAIN files : f[1] = lv}

\* the ids of the records held by a file
IdsIn(f) == {files[f][k].id : k \in 1..Len(files[f])}

\* C8: a call log(level, ...) changes nothing (no console line, no append,
\* no rotation) when the level is less severe than the configured one, with
\* error=0 < warn=1 < info=2 < debug=3; otherwise the record is emitted: one
\* console line when the console is enabled, and the record appended at the
\* end of the level's live file when file logging is enabled.
C8_LevelFilter ==
    [][\A lv \in Levels, size \in RecSizes :
        log(lv, size) =>
            IF Severity[lv] > Severity[level]
            THEN UNCHANGED loggerOutVars
            ELSE /\ console' = console + (IF enableConsole THEN 1 ELSE 0)
                 /\ enableFile =>
                      /\ existsSync(files', LiveFile(lv))
                      /\ LET live == files'[LiveFile(lv)]
                         IN  /\ live[Len(live)].id = written + 1
                             /\ live[Len(live)].level = toUpperCase[lv]
                             /\ live[Len(live)].size = size
                      /\ written' = written + 1
                 /\ ~enableFile => UNCHANGED <<files, written, rotations>>]_vars

\* C8 witness: with both sinks enabled, of two calls one was filtered out and
\* the other emitted
C8_Witness ==
    /\ enableConsole /\ enableFile /\ level # "debug"
    /\ ncalls = 2 /\ console = 1 /\ written = 1

\* C9: after k rotations of a level with k < maxFiles exactly the generations
\* .1 .. .k exist (two rotations leave level.log, level.log.1, level.log.2);
\* after a rotation the live file exists and holds only records written since
\* that rotation, so the newest record is in the live file only.
C9_RotationGenerations ==
    \A lv \in Levels :
        /\ rotations[lv] < maxFiles => Generations(lv) = 1..rotations[lv]
        /\ rotations[lv] > 0 =>
              /\ existsSync(files, LiveFile(lv))
              /\ files[LiveFile(lv)] # <<>>
              /\ \A i \in Generations(lv) :
                    \A a \in IdsIn(GenFile(lv, i)), b \in IdsIn(LiveFile(lv)) : a < b

\* C9 witness: the size threshold was exceeded twice on one level and the
\* files level.log, level.log.1 and level.log.2 are there
C9_Witness ==
    \E lv \in Levels :
        /\ rotations[lv] = 2
        /\ FilesOf(lv) = {LiveFile(lv), GenFile(lv, 1), GenFile(lv, 2)}

\* C10: for every maxFiles >= 1 the files of a level (live file plus
\* generations) never number more than maxFiles, the generation numbers are
\* contiguous from 1, and every record of generation i+1 is older than every
\* record of generation i, which is older than every record of the live file.
C10_RetentionBound ==
    \A lv \in Levels :
        /\ Cardinality(FilesOf(lv)) <= maxFiles
        /\ Generations(lv) = 1..Cardinality(Generations(lv))
        /\ \A f \in FilesOf(lv), g \in FilesOf(lv) :
              f[2] > g[2] => \A a \in IdsIn(f), b \in IdsIn(g) : a < b

\* the record of the call log(lv, size) is the last one of the live file
Appended(lv, size) ==
    /\ existsSync(files', LiveFile(lv))
    /\ LET live == files'[LiveFile(lv)]
       IN  /\ live[Len(live)].id = written + 1
           /\ live[Len(live)].level = toUpperCase[lv]
           /\ live[Len(live)].size = size
    /\ written' = written + 1

\* C11: whatever file-system call fails during a log call (stat, unlink,
\* rename or append), the call does not throw to its caller and the record
\* still reaches the console; the record is appended to the live file or the
\* failure is reported with console.error, and a due rotation is done or
\* reported; a call made while nothing fails reports nothing and appends.
C11_FailuresStayInside ==
    [][\A lv \in Levels, size \in RecSizes :
        log(lv, size) =>
            /\ ~logThrew'
            /\ console' = console
                  + (IF Severity[lv] <= Severity[level] /\ enableConsole
                     THEN 1 ELSE 0)
            /\ (Severity[lv] <= Severity[level] /\ enableFile) =>
                  /\ Appended(lv, size) \/ stderr' > stderr
                  /\ (existsSync(files, LiveFile(lv))
                        /\ statSize(files, LiveFile(lv)) > maxFileSize) =>
                          rotations'[lv] = rotations[lv] + 1 \/ stderr' > stderr
                  /\ failing = NoFault => Appended(lv, size) /\ stderr' = stderr
            /\ (Severity[lv] > Severity[level] \/ ~enableFile) =>
                  UNCHANGED <<files, written, rotations, stderr>>]_vars

\* C11 witness: a rotation failed and was reported, the record went to the
\* oversized live file, and later calls rotated that file and wrote again
C11_Witness ==
    \E lv \in Levels :
        /\ stderr >= 1 /\ ~logThrew
        /\ existsSync(files, LiveFile(lv)) /\ existsSync(files, GenFile(lv, 1))
        /\ Len(files[GenFile(lv, 1)]) = 2
        /\ \A k \in 1..2 : files[GenFile(lv, 1)][k].size > maxFileSize

\* C25: a log call that writes to the file rotates exactly when the live
\* file exists and its size before the append is strictly greater than
\* maxFileSize (an equal size or a missing file does not rotate); after the
\* write the live file is no larger than maxFileSize plus the length of the
\* record just appended, and after a rotation it holds that record only.
C25_RotationThreshold ==
    [][\A lv \in Levels, size \in RecSizes :
        log(lv, size) =>
            LET live == LiveFile(lv)
                writes == Severity[lv] <= Severity[level] /\ enableFile
                due == /\ existsSync(files, live)
                       /\ SumSizes(files[live]) > maxFileSize
            IN  /\ rotations'[lv] = rotations[lv] + (IF writes /\ due THEN 1 ELSE 0)
                /\ \A o \in Levels \ {lv} : rotations'[o] = rotations[o]
                /\ writes =>
                      /\ SumSizes(files'[live]) <= maxFileSize + size
                      /\ due => Len(files'[live]) = 1
                      /\ ~due => Len(files'[live])
                                   = (IF existsSync(files, live)
                                      THEN Len(files[live]) ELSE 0) + 1]_vars

\* C25 witness: with maxFileSize 1 a record of length 1 filled the live file
\* to the threshold, the next one was appended without a rotation, and the
\* one after that began a new live file
C25_Witness ==
    \E lv \in Levels :
        /\ maxFileSize = 1 /\ rotations[lv] = 1
        /\ existsSync(files, GenFile(lv, 1))
        /\ Len(files[GenFile(lv, 1)]) = 2
        /\ files[GenFile(lv, 1)][1].size = 1
        /\ Len(files[LiveFile(lv)]) = 1

\* C30: whatever the metadata, the record that log(level, message, meta)
\* writes to the level's file carries the level and the message given as
\* arguments and the timestamp generated by the logger; the keys of the
\* metadata are added to the record and replace none of the three.
C30_MetaKeepsRecordFields ==
    [][\A lv \in Levels, meta \in Metas :
        (logMeta(lv, meta, 1) /\ Severity[lv] <= Severity[level] /\ enableFile) =>
            LET live == files'[LiveFile(lv)]
                rec == live[Len(live)]
            IN  /\ rec.level = toUpperCase[lv]
                /\ rec.message = ArgMessage
                /\ rec.timestamp = "generated"
                /\ \A k \in DOMAIN meta \ {"timestamp", "level", "message"} :
                      k \in DOMAIN rec.extra]_vars

(***************************************************************************)
(* MetricsCollector: properties                                            *)
(***************************************************************************)
Range(s) == {s[i] : i \in DOMAIN s}

\* C5: writes that pass the same label key/value pairs in different insertion
\* orders resolve to the same series: the collector holds exactly one series
\* for every distinct pair of metric name and label set written so far.
C5_LabelOrderIndependence ==
    Cardinality(DOMAIN metrics)
        = Cardinality({<<c[1], Range(c[2])>> : c \in labelsSeen})

\* C5 witness: counter(x, 1, {a:1, b:2}) and counter(x, 1, {b:2, a:1}) were
\* called and x has one series, a counter of value 2
C5_Witness ==
    /\ labelsSeen = {<<"x", <<<<"a", "1">>, <<"b", "2">>>>>>,
                     <<"x", <<<<"b", "2">>, <<"a", "1">>>>>>}
    /\ Cardinality(DOMAIN metrics) = 1
    /\ \A k \in DOMAIN metrics :
          metrics[k].type = "counter" /\ metrics[k].value = 2 /\ ~metrics[k].nan

\* the cap of the value list in the source
SourceHistogramCap == 1000

\* x is the element at zero-based index i of V sorted ascending
IsRanked(V, x, i) ==
    /\ x \in Range(V)
    /\ Cardinality({j \in DOMAIN V : V[j] < x}) <= i
    /\ i < Cardinality({j \in DOMAIN V : V[j] <= x})

\* floor(count * q / 100)
FloorOf(count, q) ==
    CHOOSE i \in 0..count : i * 100 <= count * q /\ count * q < (i + 1) * 100

RECURSIVE SumFirst(_, _)
SumFirst(V, n) == IF n = 0 THEN 0 ELSE SumFirst(V, n - 1) + V[n]

\* C6: for a histogram series holding the values V (|V| >= 1), getMetrics()
\* reports count = |V|, sum = sum of V, min and max = the smallest and the
\* largest of V, and p50/p95/p99 = the element at zero-based index
\* floor(count * q) of V sorted ascending; 1..10 gives count 10, sum 55,
\* min 1, max 10, p50 6; the index is below count for every count up to 1000.
C6_HistogramStats ==
    [][getMetrics =>
        /\ \A k \in DOMAIN metrics :
              (metrics[k].type = "histogram" /\ Len(metrics[k].values) >= 1) =>
                LET V == metrics[k].values
                    e == snapshot'[k]
                IN  /\ e.count = Len(V)
                    /\ e.sum = SumFirst(V, Len(V))
                    /\ e.min \in Range(V) /\ \A j \in DOMAIN V : e.min <= V[j]
                    /\ e.max \in Range(V) /\ \A j \in DOMAIN V : e.max >= V[j]
                    /\ IsRanked(V, e.p50, FloorOf(Len(V), 50))
                    /\ IsRanked(V, e.p95, FloorOf(Len(V), 95))
                    /\ IsRanked(V, e.p99, FloorOf(Len(V), 99))
                    /\ Range(V) = 1..10 /\ Len(V) = 10 =>
                          /\ e.count = 10 /\ e.sum = 55
                          /\ e.min = 1 /\ e.max = 10 /\ e.p50 = 6
        /\ \A c \in 1..SourceHistogramCap, q \in {50, 95, 99} :
              PIndex(c, q) \in 0..(c - 1)]_vars

\* C6 witness: the values 1..10, given out of order, were read out
C6_Witness ==
    \E k \in DOMAIN snapshot :
        /\ observed[k] = <<7, 3, 10, 1, 9, 5, 2, 8, 6, 4>>
        /\ snapshot[k].count = 10 /\ snapshot[k].sum = 55 /\ snapshot[k].p50 = 6

\* C7: whatever histogram() and getMetrics() calls were made on a series, it
\* retains exactly the most recent min(n, cap) of the n values observed.
C7_RecentWindow ==
    \A k \in DOMAIN metrics :
        metrics[k].type = "histogram" =>
            SortAsc(metrics[k].values)
                = SortAsc(sliceLast(observed[k], HistogramCap))

\* C19: start() on a collector that is running has no effect: no sample is
\* taken, no timer is added, nothing is logged, the series stay as they
\* are; stop() on a collector that is not running leaves the running flag,
\* the stored series and the pending timers as they are.
C19_CollectorIdempotent ==
    [][/\ collectorStart =>
             IF collecting
             THEN UNCHANGED <<collecting, metrics, sampleTimers, nsamples,
                              loggerOutVars>>
             ELSE /\ collecting' /\ nsamples' = nsamples + 1
                  /\ sampleTimers' = sampleTimers + 1
       /\ collectorStop =>
             /\ ~collecting'
             /\ ~collecting => UNCHANGED <<collecting, metrics, sampleTimers,
                                           nsamples>>]_vars

\* C19 witness: stop() on the new collector, then start() twice: one sample,
\* one timer, and the two lines logged by the stop() and the first start()
C19_Witness ==
    /\ ncollectorCmds = 3 /\ collecting
    /\ nsamples = 1 /\ sampleTimers = 1 /\ console = 2
    /\ Cardinality(DOMAIN metrics) = 7

\* C20: every series written by counter() calls only is a counter whose
\* value is the sum of all deltas passed for its key, negative ones
\* included and 1 for a call without a delta; a counter call adds its delta
\* to the series of its key, starting from 0 when the series is new, and
\* leaves every other series as it is.
C20_CounterSums ==
    [][/\ \A k \in DOMAIN metrics' :
             /\ metrics'[k].type = "counter" /\ ~metrics'[k].nan
             /\ metrics'[k].value = SumFirst(counted'[k], Len(counted'[k]))
       /\ \A v \in Deltas \cup {1}, l \in CounterLabels :
             counter("x", v, l) =>
               \E k \in DOMAIN metrics' :
                  /\ k[1] = "x" /\ Range(k[2]) = Range(l)
                  /\ DOMAIN metrics' = DOMAIN metrics \cup {k}
                  /\ metrics'[k].value
                        = (IF k \in DOMAIN metrics THEN metrics[k].value ELSE 0) + v
                  /\ \A o \in DOMAIN metrics \ {k} : metrics'[o] = metrics[o]]_vars

\* C20 witness: the deltas 3, -2 and the default 1 were added to one series,
\* which holds 2, while another series holds its own delta
C20_Witness ==
    \E k \in DOMAIN metrics, o \in DOMAIN metrics :
        /\ k # o
        /\ Range(counted[k]) = {3, -2, 1} /\ Len(counted[k]) = 3
        /\ metrics[k].value = 2
        /\ metrics[o].value = 3

\* C27: getMetrics() leaves the stored state of the collector as it is: the
\* set of series, every counter and gauge value and, for every histogram,
\* the retained values in their observation order.
C27_GetMetricsReadsOnly ==
    [][getMetrics => metrics' = metrics]_vars

\* C28: no counter, gauge or histogram call raises to its caller, whatever
\* kinds of calls were made on the same name and label set before, and
\* every stored series is well-formed for its type: a counter or gauge
\* holds a number, a histogram holds a value list.
C28_MetricCallsNeverRaise ==
    /\ ~raised
    /\ \A k \in DOMAIN metrics :
          /\ metrics[k].type \in {"counter", "gauge"} =>
                metrics[k].hasValue /\ ~metrics[k].nan
          /\ metrics[k].type = "histogram" =>
                metrics[k].hasValues /\ ~metrics[k].nan

\* C29: in every snapshot of getMetrics() every histogram entry has
\* 1 <= count <= cap and min <= p50 <= p95 <= p99 <= max, and each of the
\* five is a value that was observed on that series.
C29_SnapshotOrdered ==
    \A k \in DOMAIN snapshot :
        snapshot[k].type = "histogram" =>
            LET e == snapshot[k]
            IN  /\ 1 <= e.count /\ e.count <= HistogramCap
                /\ e.min <= e.p50 /\ e.p50 <= e.p95
                /\ e.p95 <= e.p99 /\ e.p99 <= e.max
                /\ {e.min, e.p50, e.p95, e.p99, e.max} \subseteq Range(observed[k])

\* C29 witness: more values than the cap were observed, and the snapshot
\* taken then has count = cap and different min and max
C29_Witness ==
    \E k \in DOMAIN snapshot :
        /\ snapshot[k].type = "histogram"
        /\ Len(observed[k]) > HistogramCap
        /\ snapshot[k].count = HistogramCap
        /\ snapshot[k].min < snapshot[k].max

(***************************************************************************)
(* HealthMonitor: properties                                               *)
(***************************************************************************)
\* the reports returned so far
Reports == {produced[k].report : k \in DOMAIN produced}

Unhealthy(rep) == {i \in DOMAIN rep.checks : rep.checks[i].status = "unhealthy"}
Healthy(rep) == {i \in DOMAIN rep.checks : rep.checks[i].status = "healthy"}

\* every report returned has one result per registered check, the i-th
\* carrying the name of the i-th registered check
ReportsFollowRegistration ==
    \A k \in DOMAIN produced :
        LET results == produced[k].report.checks
            names == produced[k].registered
        IN  /\ Len(results) = Len(names)
            /\ \A i \in DOMAIN names : results[i].name = names[i]

\* the runAllChecks() calls that have ended
CallsEnded == nruns - Cardinality({c \in Slots : cycles[c].pc = "await"})

\* C1: with N checks registered, every call of runAllChecks() produces a
\* report, and the report has exactly N results, the i-th carrying the name
\* of the i-th registered check, whatever mix of success, failure and
\* timeout the checks produced.
C1_EveryCallReportsInOrder ==
    /\ Len(produced) = CallsEnded
    /\ ReportsFollowRegistration

\* C2: in every report, status is healthy iff every result is healthy; an
\* unhealthy critical check makes it unhealthy whatever the other checks
\* did; with all checks healthy, healthyChecks = totalChecks.
C2_OverallStatus ==
    \A rep \in Reports \cup Range(history) :
        /\ rep.status \in {"healthy", "unhealthy"}
        /\ rep.status = "healthy" <=> Unhealthy(rep) = {}
        /\ (\E i \in Unhealthy(rep) : rep.checks[i].reg) => rep.status = "unhealthy"
        /\ Unhealthy(rep) = {} =>
              rep.status = "healthy" /\ rep.healthyChecks = rep.totalChecks

\* C2 witness: a report in which the critical check failed and the other
\* check is healthy has been returned
C2_Witness ==
    \E rep \in Reports :
        \E i \in Unhealthy(rep), j \in Healthy(rep) :
            rep.checks[i].reg /\ rep.status = "unhealthy"

\* C3: in every report returned and every report in history,
\* criticalFailures is the number of unhealthy results of checks registered
\* critical, healthyChecks the number of healthy results, totalChecks the
\* number of results; so healthyChecks <= totalChecks and
\* criticalFailures <= totalChecks - healthyChecks.
C3_ReportCounts ==
    \A rep \in Reports \cup Range(history) :
        /\ rep.criticalFailures
              = Cardinality({i \in Unhealthy(rep) : rep.checks[i].reg})
        /\ rep.healthyChecks = Cardinality(Healthy(rep))
        /\ rep.totalChecks = Len(rep.checks)
        /\ rep.healthyChecks <= rep.totalChecks
        /\ rep.criticalFailures <= rep.totalChecks - rep.healthyChecks

\* C3 witness: a report held in history with a critical and a non-critical
\* failure
C3_Witness ==
    \E k \in DOMAIN history :
        /\ history[k].totalChecks = 2
        /\ history[k].healthyChecks = 0
        /\ history[k].criticalFailures = 1

Min(a, b) == IF a <= b THEN a ELSE b

\* the reports of the n most recently completed runAllChecks() cycles,
\* newest first
RecentReports(n) == [i \in 1..n |-> produced[Len(produced) + 1 - i].report]

\* C12: getStatus() returns the report with status unknown, no checks and
\* all three counts 0 as long as no runAllChecks() cycle has completed, and
\* from then on the report of the cycle that completed last.
C12_StatusIsLatest ==
    [][callGetStatus =>
        reply'.value = IF produced = << >>
                       THEN [status |-> "unknown", checks |-> << >>,
                             criticalFailures |-> 0, totalChecks |-> 0,
                             healthyChecks |-> 0]
                       ELSE produced[Len(produced)].report]_vars

\* C12 witness: getStatus() returned the report of the last of several
\* cycles, which differs from the first one
C12_Witness ==
    /\ reply.op = "getStatus"
    /\ Len(produced) >= 2
    /\ reply.value = produced[Len(produced)].report
    /\ reply.value # produced[1].report

\* C13: with c cycles completed, getHistory(limit) for limit >= 0 returns
\* min(limit, c, maxHistorySize) reports, the outputs of the most recent
\* runAllChecks() calls, newest first, and leaves the history as it was;
\* without an argument the limit is 10.
C13_HistoryRead ==
    [][\A given \in BOOLEAN, limit \in Limits :
        callGetHistory(given, limit) =>
            LET lim == IF given THEN limit ELSE 10
                n == Min(lim, Min(Len(produced), maxHistorySize))
            IN  /\ Len(reply'.value) = n
                /\ reply'.value = RecentReports(n)
                /\ history' = history]_vars

\* C13 witness: getHistory(2) after three cycles returned two reports that
\* differ, the newer one first
C13_Witness ==
    /\ reply.op = "getHistory" /\ reply.limit = 2
    /\ Len(produced) = 3
    /\ reply.value = <<produced[3].report, produced[2].report>>
    /\ produced[3].report # produced[2].report

\* C14: the history never holds more than maxHistorySize reports (100 when
\* no size is given); it holds the reports of the most recent
\* min(c, maxHistorySize) of the c completed cycles, newest first, so a
\* completed cycle puts its report in front and the oldest one is dropped.
C14_HistoryBounded ==
    /\ Len(history) <= maxHistorySize
    /\ history = RecentReports(Min(Len(produced), maxHistorySize))

\* C14 witness: with maxHistorySize 2, a third cycle completed and the
\* report of the first one, which differs from the two kept, was dropped
C14_Witness ==
    /\ maxHistorySize = 2
    /\ Len(produced) = 3 /\ Len(history) = 2
    /\ history[1] = produced[3].report /\ history[2] = produced[2].report
    /\ produced[1].report # history[2] /\ produced[1].report # history[1]

\* the report of the cycle that completed last, if any
LatestReport ==
    IF produced = << >>
    THEN [status |-> "unknown", checks |-> << >>, criticalFailures |-> 0,
          totalChecks |-> 0, healthyChecks |-> 0]
    ELSE produced[Len(produced)].report

\* C15: GET /health answers unhealthy when the latest report's status is
\* unhealthy or its criticalFailures > 0, otherwise degraded when
\* healthyChecks < totalChecks, otherwise ok; before any cycle has completed
\* the report is the unknown one and the answer is ok.
C15_ServiceStatus ==
    [][healthEndpoint =>
        LET rep == LatestReport
        IN  /\ reply'.healthChecks = rep
            /\ (rep.status = "unhealthy" \/ rep.criticalFailures > 0)
                  => reply'.status = "unhealthy"
            /\ (rep.status # "unhealthy" /\ rep.criticalFailures = 0
                    /\ rep.healthyChecks < rep.totalChecks)
                  => reply'.status = "degraded"
            /\ (rep.status # "unhealthy" /\ rep.criticalFailures = 0
                    /\ rep.healthyChecks >= rep.totalChecks)
                  => reply'.status = "ok"
            /\ rep.status = "unknown" => reply'.status = "ok"]_vars

\* C15 witness: GET /health answered unhealthy for a latest report that is
\* unhealthy without a critical failure
C15_Witness ==
    /\ reply.op = "health"
    /\ reply.healthChecks.status = "unhealthy"
    /\ reply.healthChecks.criticalFailures = 0
    /\ reply.status = "unhealthy" /\ reply.statusCode = 503

\* C16: after a cycle in which a critical check failed GET /health answers
\* unhealthy; after a cycle in which only non-critical checks failed (every
\* critical check healthy) it answers degraded, not unhealthy.
C16_CriticalVersusDegraded ==
    [][healthEndpoint =>
        (produced # << >> =>
            LET rep == produced[Len(produced)].report
                failedCritical == {i \in Unhealthy(rep) : rep.checks[i].reg}
            IN  /\ failedCritical # {} => reply'.status = "unhealthy"
                /\ (failedCritical = {} /\ Unhealthy(rep) # {})
                      => reply'.status = "degraded")]_vars

\* C17: start() on a monitor that is not running sets isRunning and begins
\* a cycle at once, without waiting for the interval; start() on a running
\* monitor changes nothing: no cycle begins, no timer is added, nothing is
\* logged.
C17_StartIdempotent ==
    [][start =>
        IF isRunning
        THEN UNCHANGED <<isRunning, checks, history, cycles, timers, produced,
                         nruns, loggerOutVars>>
        ELSE /\ isRunning'
             /\ nruns' = nruns + 1
             /\ console' = console + 1
             /\ IF checks = << >>
                THEN /\ Len(produced') = Len(produced) + 1
                     /\ timers' = timers + 1 /\ cycles' = cycles
                ELSE /\ timers' = timers /\ produced' = produced
                     /\ \E c \in Slots :
                           /\ cycles[c].pc = "idle"
                           /\ cycles'[c].pc = "await" /\ cycles'[c].byLoop
                           /\ cycles'[c].idx = 1
                           /\ \A d \in Slots \ {c} : cycles'[d] = cycles[d]]_vars

\* C17 witness: start() was called twice in a row; one cycle was begun and
\* one line logged
C17_Witness ==
    /\ ncmds = 2 /\ isRunning
    /\ nruns = 1 /\ console = 1
    /\ \E c \in Slots : cycles[c].pc = "await"

C4_TimeoutEnds ==
    \A c \in Slots, r \in 1..MaxTimedRuns, i \in 1..Cardinality(CheckNames) :
        (cycles[c].pc = "await" /\ cycles[c].plan = "never"
            /\ cycles[c].run = r /\ cycles[c].idx = i)
        ~> (ret[c].run = r /\ ret[c].idx = i
            /\ ret[c].result.status = "unhealthy"
            /\ ret[c].result.error = TimeoutMessage)

\* C4 witness: runCheck returned the timeout result for a check function
\* that never settles
C4_Witness ==
    \E c \in Slots :
        /\ ret[c].plan = "never"
        /\ ret[c].result.status = "unhealthy"
        /\ ret[c].result.error = TimeoutMessage

\* C24: in a runAllChecks() cycle the checks run one at a time in
\* registration order: while the function of the k-th registered check is
\* awaited, the results of exactly the first k-1 registered checks have been
\* recorded, in that order, and no later check has been invoked.
C24_SequentialInOrder ==
    \A c \in Slots :
        cycles[c].pc = "await" =>
            /\ cycles[c].idx \in DOMAIN checks
            /\ cycles[c].cur.name = checks[cycles[c].idx].name
            /\ Len(cycles[c].results) = cycles[c].idx - 1
            /\ \A i \in DOMAIN cycles[c].results :
                  /\ cycles[c].results[i].name = checks[i].name
                  /\ cycles[c].results[i].status \in {"healthy", "unhealthy"}

\* C24 witness: the second registered check is awaited after the first
\* one's failure was recorded
C24_Witness ==
    \E c \in Slots :
        /\ cycles[c].pc = "await" /\ cycles[c].idx = 2
        /\ cycles[c].results[1].status = "unhealthy"
        /\ cycles[c].results[1].name = checks[1].name
        /\ checks[1].lastResult = cycles[c].results[1]

\* C22: whatever a check function fails with, runCheck returns an unhealthy
\* result for that check, the cycle goes on to the next check and, after
\* the last one, its report is appended to the history.
C22_FailuresCaughtPerCheck ==
    [][\A c \in Slots, outcome \in Outcomes \ {"resolve"} :
          FnSettles(c, outcome) =>
            /\ ret'[c].run = cycles[c].run /\ ret'[c].idx = cycles[c].idx
            /\ ret'[c].result.status = "unhealthy"
            /\ IF cycles[c].idx < Len(checks)
               THEN /\ cycles'[c].pc = "await"
                    /\ cycles'[c].idx = cycles[c].idx + 1
               ELSE /\ Len(produced') = Len(produced) + 1
                    /\ history'[1].checks[cycles[c].idx] = ret'[c].result]_vars

\* C21: while the monitor is running, every end of a cycle of the loop,
\* with a report or with an exception out of runAllChecks(), schedules the
\* next run; the exception is logged and goes no further; and a timer
\* that fires while the monitor is running begins a cycle.
C21_LoopSurvivesFailure ==
    [][/\ \A c \in Slots :
             (isRunning /\ cycles[c].pc = "await" /\ cycles[c].byLoop
                 /\ cycles'[c].pc = "idle") =>
               timers' = timers + 1 /\ isRunning'
       /\ \A c \in Slots :
             (cycles[c].pc = "await" /\ cycles[c].byLoop
                 /\ cycles'[c].pc = "idle" /\ produced' = produced) =>
               console' = console + 1 /\ ~logThrew'
       /\ (IntervalFires /\ isRunning) =>
               nruns' = nruns + 1 /\ timers' <= timers]_vars

\* C21 witness: the first cycle of the loop ended with an exception and no
\* report, its timer fired, and the second cycle is in flight
C21_Witness ==
    /\ isRunning /\ ncmds = 1 /\ nruns = 2
    /\ produced = << >> /\ console = 2
    /\ \E c \in Slots : cycles[c].pc = "await" /\ cycles[c].byLoop

\* the cycles of the loop in flight
LoopCyclesInFlight == {c \in Slots : cycles[c].pc = "await" /\ cycles[c].byLoop}

\* C26: whatever the order of start(), stop(), timer firings and check
\* completions, the cycles of the loop in flight and the pending interval
\* timers number at most one in total.
C26_OneLoop ==
    timers + Cardinality(LoopCyclesInFlight) <= 1

\* C23: the loser of the race in runCheck has no further effect: when the
\* check function ends after the timeout result was returned, or the timer
\* fires after the check function ended, every lastResult, the reports, the
\* history, the cycles in flight and the log stay as they are, and nothing
\* is raised.
C23_LoserHasNoEffect ==
    [][\A c \in Slots :
          (LateFnSettles(c) \/ LateTimeoutFires(c)) =>
            /\ UNCHANGED <<checks, history, produced, cycles, ret, timers>>
            /\ UNCHANGED loggerOutVars
            /\ unhandledRejection' = unhandledRejection]_vars

=============================================================================
